---- MODULE Spec2Model ----
(***************************************************************************)
(* Snippet compilation of crates/core/src/pattern_compiler/               *)
(* snippet_compiler.rs: the language-tagged snippet unwrapper             *)
(* (LanguageSpecificSnippetCompiler), the pattern content resolver        *)
(* (parse_snippet_content) and the dynamic snippet builder                *)
(* (dynamic_snippet_from_source).                                          *)
(*                                                                         *)
(* A text is a sequence of one-character strings; every character of the  *)
(* alphabet is one byte, so a byte offset is a 0-based index into the     *)
(* sequence and a ByteRange is a record [start, end), half-open.          *)
(***************************************************************************)
EXTENDS Integers, Sequences, FiniteSets, TLC

VARIABLES
    node,             \* the languageSpecificSnippet node: [start, language, snippet]
    is_rhs,           \* the side flag handed down the call chain
    pc,               \* position in the call chain
    content,          \* `source` argument of parse_snippet_content
    range,            \* `range` argument of parse_snippet_content
    ret,              \* call site of dynamic_snippet_from_source awaiting its return
    snippet_nodes,    \* kind ids of the candidate root nodes, [parsed, kinds]
    snippet_patterns, \* (kind id, pattern) pairs compiled from snippet_nodes
    source_string,    \* the unescaped text the builder works on
    metavariables,    \* the scanner's result, as returned
    iter,             \* what is left of metavariables.into_iter().rev()
    parts,            \* the builder's parts vector
    last,             \* the builder's `last` offset
    built,            \* the builder's return value
    registered,       \* the registrations these functions made in the context, in call order
    result            \* the value returned to the rule compiler

vars == <<node, is_rhs, pc, content, range, ret, snippet_nodes, snippet_patterns,
          source_string, metavariables, iter, parts, last, built, registered,
          result>>

(***************************************************************************)
(* Bounds of the model.                                                    *)
(***************************************************************************)
MaxTokens == 3
MaxRawLen == 4
MaxNodes == 2
MaxStart == 1

(***************************************************************************)
(* Characters.  The newline, the double quote and the back-tick are named  *)
(* by atoms.                                                               *)
(***************************************************************************)
BS == "\\"
NL == "NL"
DQ == "DQ"
BT == "BT"
DOLLAR == "$"
CARET == "^"
LBRACE == "{"
RBRACE == "}"
SP == " "

NameChars == {"x", "n", "_"}
Sigils == {DOLLAR, CARET}
Whitespace == {SP, NL}

(***************************************************************************)
(* Text helpers.                                                           *)
(***************************************************************************)
\* &s[a..b] of Rust: the bytes at offsets a .. b-1.
Slice(s, a, b) == SubSeq(s, a + 1, b)

\* &s[a..b] panics unless a <= b <= s.len().
CanSlice(s, a, b) == a <= b /\ b <= Len(s)

Reverse(s) == [i \in 1..Len(s) |-> s[Len(s) + 1 - i]]

MatchesAt(s, i, pat) ==
    /\ i + Len(pat) - 1 <= Len(s)
    /\ \A k \in 1..Len(pat) : s[i + k - 1] = pat[k]

\* str::replace: every non-overlapping match of pat, found left to right.
RECURSIVE ReplaceFrom(_, _, _, _)
ReplaceFrom(s, i, pat, to) ==
    IF i > Len(s) THEN <<>>
    ELSE IF MatchesAt(s, i, pat) THEN to \o ReplaceFrom(s, i + Len(pat), pat, to)
    ELSE <<s[i]>> \o ReplaceFrom(s, i + 1, pat, to)

\* (the text is bound to t so that it is evaluated once)
Replace(s, pat, to) == CHOOSE r \in {ReplaceFrom(t, 1, pat, to) : t \in {s}} : TRUE

\* str::trim: leading and trailing whitespace removed.
RECURSIVE TrimStart(_)
TrimStart(s) ==
    IF s # <<>> /\ Head(s) \in Whitespace THEN TrimStart(Tail(s)) ELSE s

RECURSIVE TrimEnd(_)
TrimEnd(s) ==
    IF s # <<>> /\ s[Len(s)] \in Whitespace THEN TrimEnd(SubSeq(s, 1, Len(s) - 1)) ELSE s

Trim(s) == TrimEnd(TrimStart(s))

\* str::strip_prefix / strip_suffix: the rest, or None.
StripPrefix(s, c) ==
    IF s # <<>> /\ Head(s) = c THEN [some |-> TRUE, text |-> Tail(s)]
    ELSE [some |-> FALSE, text |-> <<>>]

StripSuffix(s, c) ==
    IF s # <<>> /\ s[Len(s)] = c THEN [some |-> TRUE, text |-> SubSeq(s, 1, Len(s) - 1)]
    ELSE [some |-> FALSE, text |-> <<>>]

(***************************************************************************)
(* The language profile and the metavariable scanner.  Their code is not  *)
(* part of snippet_compiler.rs; they are modelled from their interface.   *)
(***************************************************************************)
KnownLanguages == {<<"j", "s">>}

\* TargetLanguage::from_string: Some for a registered name.
TargetLanguageFromString(name) == name \in KnownLanguages

\* The end offset of the longest run of name characters that starts at offset i.
NameRunEnd(s, i) ==
    LET end[k \in 0..Len(s)] ==
            IF k < Len(s) /\ s[k + 1] \in NameChars THEN end[k + 1] ELSE k
    IN  end[i]

\* A plain metavariable ($name, ^name) starts at offset i.
PlainAt(s, i) ==
    /\ i < Len(s)
    /\ s[i + 1] \in Sigils
    /\ NameRunEnd(s, i + 1) > i + 1

\* A bracketed metavariable (${name}) starts at offset i.
BracketedAt(s, i) ==
    /\ i + 1 < Len(s)
    /\ s[i + 1] = DOLLAR
    /\ s[i + 2] = LBRACE
    /\ NameRunEnd(s, i + 2) > i + 2
    /\ NameRunEnd(s, i + 2) < Len(s)
    /\ s[NameRunEnd(s, i + 2) + 1] = RBRACE

\* metavariable_bracket_regex().is_match: a bracketed metavariable somewhere.
HasBracketedVars(s) == \E i \in 0..Len(s) : BracketedAt(s, i)

\* exact_variable_regex().is_match: the whole text is one plain metavariable.
IsExactVariable(s) == PlainAt(s, 0) /\ NameRunEnd(s, 1) = Len(s)

\* Every metavariable occurrence of s from offset i on, left to right:
\* (ByteRange, name) pairs; a bracketed occurrence reports its name without
\* the braces.
ScanFrom(s, i) ==
    LET scan[k \in 0..Len(s)] ==
            IF k >= Len(s) THEN <<>>
            ELSE IF PlainAt(s, k)
            THEN <<[range |-> [start |-> k, end |-> NameRunEnd(s, k + 1)],
                    name |-> Slice(s, k, NameRunEnd(s, k + 1))]>>
                     \o scan[NameRunEnd(s, k + 1)]
            ELSE IF BracketedAt(s, k)
            THEN <<[range |-> [start |-> k, end |-> NameRunEnd(s, k + 2) + 1],
                    name |-> <<DOLLAR>> \o Slice(s, k + 2, NameRunEnd(s, k + 2))]>>
                     \o scan[NameRunEnd(s, k + 2) + 1]
            ELSE scan[k + 1]
    IN  scan[i]

\* The occurrences at the positions of `keep`, in their order.
RECURSIVE Select(_, _, _)
Select(s, keep, i) ==
    IF i > Len(s) THEN <<>>
    ELSE IF i \in keep THEN <<s[i]>> \o Select(s, keep, i + 1)
    ELSE Select(s, keep, i + 1)

\* The characters that open or close a string literal of a target language.
LiteralDelimiters == {DQ, BT}

\* The occurrences (by position in ms) that may lie inside a string literal of
\* the language: a delimiter before them and one after them.
MaybeInLiteral(s, ms) ==
    {k \in 1..Len(ms) :
        /\ \E i \in 1..ms[k].range.start : s[i] \in LiteralDelimiters
        /\ \E i \in (ms[k].range.end + 1)..Len(s) : s[i] \in LiteralDelimiters}

\* The sets of occurrences the scanner may report for s: every occurrence outside
\* the language's literals, and whichever of the others the language lets fire.
Reported(s) ==
    LET ms == ScanFrom(s, 0)
    IN  {(1..Len(ms)) \ drop : drop \in SUBSET MaybeInLiteral(s, ms)}

\* split_snippet: the reported occurrences (`keep`), non-overlapping and sorted
\* by start offset, the last occurrence first: the order that the caller's
\* .rev() turns into ascending order.
split_snippet(s, keep) == Reverse(Select(ScanFrom(s, 0), keep, 1))

\* node.range() of the languageSpecificSnippet node: the language name followed
\* by the quoted snippet.
NodeRange(n) ==
    [start |-> n.start, end |-> n.start + Len(n.language) + Len(n.snippet)]

\* The range of the node's snippet child, quotes included.
SnippetNodeRange(n) ==
    [start |-> n.start + Len(n.language), end |-> NodeRange(n).end]

\* Range::adjust_columns followed by the conversion into a ByteRange.
AdjustColumns(r, s, e) == [start |-> r.start + s, end |-> r.end + e]

(***************************************************************************)
(* Values.                                                                 *)
(***************************************************************************)
Ok(p) == [tag |-> "Ok", pattern |-> p]
Err(e) == [tag |-> "Err", err |-> e]
None == [tag |-> "None"]

StringPart(t) == [kind |-> "String", text |-> t]

\* The part register_snippet_variable returns; `occ` keeps the occurrence the
\* part was made for.
VariablePart(name, occ) == [kind |-> "Variable", name |-> name, occ |-> occ]

InvalidLanguage == "invalid language"
MalformedLiteral == "Unable to extract content from raw snippet"
PlacementError == "bracketed metavariables are only allowed on the rhs of a snippet"
BindingError == "variable registration failed"
CompileError == "structural compilation failed"

(***************************************************************************)
(* LanguageSpecificSnippetCompiler::from_node_with_rhs.                    *)
(***************************************************************************)
Unwrap(n) ==
    LET lang_name == Trim(n.language)
        source == n.snippet
        r == AdjustColumns(NodeRange(n), 1, -1)
        p == StripPrefix(source, DQ)
        q == StripSuffix(p.text, DQ)
    IN  IF ~TargetLanguageFromString(lang_name)
        THEN [ok |-> FALSE, err |-> InvalidLanguage, content |-> <<>>, range |-> r]
        ELSE IF ~p.some \/ ~q.some
        THEN [ok |-> FALSE, err |-> MalformedLiteral, content |-> <<>>, range |-> r]
        ELSE [ok |-> TRUE, err |-> "", content |-> q.text, range |-> r]

FromNodeWithRhs ==
    /\ pc = "unwrap"
    /\ LET u == Unwrap(node)
       IN  IF u.ok
           THEN /\ content' = u.content
                /\ range' = u.range
                /\ pc' = "resolve"
                /\ UNCHANGED result
           ELSE /\ result' = Err(u.err)
                /\ pc' = "done"
                /\ UNCHANGED <<content, range>>
    /\ UNCHANGED <<node, is_rhs, ret, snippet_nodes, snippet_patterns, source_string,
                   metavariables, iter, parts, last, built, registered>>

(***************************************************************************)
(* dynamic_snippet_from_source.                                            *)
(***************************************************************************)
\* The escape processing: six whole-text rewrites, one after the other.
UnescapeLastFirst(raw) ==
    Replace(Replace(Replace(Replace(Replace(Replace(raw,
        <<BS, BS>>, <<BS>>),
        <<BS, "n">>, <<NL>>),
        <<BS, DOLLAR>>, <<DOLLAR>>),
        <<BS, CARET>>, <<CARET>>),
        <<BS, BT>>, <<BT>>),
        <<BS, DQ>>, <<DQ>>)

Unescape(raw) ==
    Replace(Replace(Replace(Replace(Replace(Replace(raw,
        <<BS, "n">>, <<NL>>),
        <<BS, DOLLAR>>, <<DOLLAR>>),
        <<BS, CARET>>, <<CARET>>),
        <<BS, BT>>, <<BT>>),
        <<BS, DQ>>, <<DQ>>),
        <<BS, BS>>, <<BS>>)

\* metavariables.into_iter().rev()
IterOrderNoRev(ms) == ms

IterOrder(ms) == Reverse(ms)

\* parts.push(part)
PushPartFront(ps, part) == <<part>> \o ps

PushPart(ps, part) == Append(ps, part)

\* The range handed to register_snippet_variable.
VariableRange(source_range, byte_range, var) ==
    [start |-> source_range.start + byte_range.start,
     end |-> source_range.start + byte_range.start + Len(var)]

\* last = byte_range.end
NextLastByName(byte_range, var) == byte_range.start + Len(var)

NextLast(byte_range, var) == byte_range.end

DynamicSnippetStart ==
    /\ pc = "build"
    /\ \E source \in {Unescape(content)} :
           \E found \in {split_snippet(source, keep) : keep \in Reported(source)} :
               /\ source_string' = source
               /\ metavariables' = found
               /\ iter' = IterOrder(found)
    /\ parts' = <<>>
    /\ last' = 0
    /\ pc' = "loop"
    /\ UNCHANGED <<node, is_rhs, content, range, ret, snippet_nodes, snippet_patterns,
                   built, registered, result>>

DynamicSnippetLoop ==
    /\ pc = "loop"
    /\ iter # <<>>
    /\ LET byte_range == Head(iter).range
           var == Head(iter).name
       IN  IF ~CanSlice(source_string, last, byte_range.start)
           THEN /\ pc' = "panic"
                /\ UNCHANGED <<iter, parts, last, built, registered>>
           ELSE \E ok \in BOOLEAN :
                  IF ok
                  THEN /\ parts' = PushPart(
                                      PushPart(parts, StringPart(
                                          Slice(source_string, last, byte_range.start))),
                                      VariablePart(var, byte_range))
                       /\ registered' = Append(registered,
                              [name |-> var,
                               range |-> VariableRange(range, byte_range, var)])
                       /\ last' = NextLast(byte_range, var)
                       /\ iter' = Tail(iter)
                       /\ pc' = "loop"
                       /\ UNCHANGED built
                  ELSE /\ parts' = PushPart(parts, StringPart(
                                      Slice(source_string, last, byte_range.start)))
                       /\ built' = Err(BindingError)
                       /\ pc' = "return"
                       /\ UNCHANGED <<iter, last, registered>>
    /\ UNCHANGED <<node, is_rhs, content, range, ret, snippet_nodes, snippet_patterns,
                   source_string, metavariables, result>>

DynamicSnippetFinish ==
    /\ pc = "loop"
    /\ iter = <<>>
    /\ IF ~CanSlice(source_string, last, Len(source_string))
       THEN /\ pc' = "panic"
            /\ UNCHANGED <<parts, built>>
       ELSE /\ parts' = PushPart(parts, StringPart(
                            Slice(source_string, last, Len(source_string))))
            /\ built' = [tag |-> "Ok", parts |-> parts']
            /\ pc' = "return"
    /\ UNCHANGED <<node, is_rhs, content, range, ret, snippet_nodes, snippet_patterns,
                   source_string, metavariables, iter, last, registered, result>>

(***************************************************************************)
(* parse_snippet_content.                                                  *)
(***************************************************************************)
Underscore == [kind |-> "Underscore"]

\* The branch taken before any parsing: the bracketed check, then the exact
\* variable check on the trimmed text.
ResolveBranchAnySide(source, rhs) ==
    IF HasBracketedVars(source) THEN "bracketed"
    ELSE IF IsExactVariable(Trim(source))
    THEN IF Trim(source) = <<DOLLAR, "_">> THEN "underscore"
         ELSE IF Trim(source) = <<CARET, "_">> THEN "underscore"
         ELSE "variable"
    ELSE "parse"

ResolveBranchOneWildcard(source, rhs) ==
    IF HasBracketedVars(source) THEN (IF rhs THEN "bracketed" ELSE "placement")
    ELSE IF IsExactVariable(Trim(source))
    THEN IF Trim(source) = <<DOLLAR, "_">> THEN "underscore"
         ELSE "variable"
    ELSE "parse"

ResolveBranch(source, rhs) ==
    IF HasBracketedVars(source) THEN (IF rhs THEN "bracketed" ELSE "placement")
    ELSE IF IsExactVariable(Trim(source))
    THEN IF Trim(source) = <<DOLLAR, "_">> THEN "underscore"
         ELSE IF Trim(source) = <<CARET, "_">> THEN "underscore"
         ELSE "variable"
    ELSE "parse"

\* The (kind id, pattern) pairs of the candidate nodes; a pattern keeps the
\* arguments from_snippet_node was called with.
SnippetPatterns(kinds, r, rhs) ==
    [i \in 1..Len(kinds) |->
        [kind |-> kinds[i], pattern |-> [node |-> i, range |-> r, is_rhs |-> rhs]]]

\* What parse_snippet_content returns once dynamic_snippet_from_source is back.
ReturnPatternStrict(site, b, patterns, source) ==
    IF b.tag = "Ok"
    THEN IF site = "codesnippet"
         THEN Ok([kind |-> "CodeSnippet", patterns |-> patterns,
                  dynamic_snippet |-> [tag |-> "Some", parts |-> b.parts],
                  source |-> source])
         ELSE Ok([kind |-> "Dynamic", parts |-> b.parts])
    ELSE Err(b.err)

ReturnPatternNoFallback(site, b, patterns, source) ==
    IF site = "fallback" THEN Err(CompileError)
    ELSE IF site = "bracketed"
    THEN IF b.tag = "Ok" THEN Ok([kind |-> "Dynamic", parts |-> b.parts])
         ELSE Err(b.err)
    ELSE Ok([kind |-> "CodeSnippet", patterns |-> patterns,
             dynamic_snippet |-> IF b.tag = "Ok"
                                 THEN [tag |-> "Some", parts |-> b.parts]
                                 ELSE None,
             source |-> source])

ReturnPattern(site, b, patterns, source) ==
    IF site \in {"bracketed", "fallback"}
    THEN IF b.tag = "Ok" THEN Ok([kind |-> "Dynamic", parts |-> b.parts])
         ELSE Err(b.err)
    ELSE Ok([kind |-> "CodeSnippet", patterns |-> patterns,
             dynamic_snippet |-> IF b.tag = "Ok"
                                 THEN [tag |-> "Some", parts |-> b.parts]
                                 ELSE None,
             source |-> source])

ParseSnippetContent ==
    /\ pc = "resolve"
    /\ LET branch == ResolveBranch(content, is_rhs)
       IN  IF branch = "placement"
           THEN /\ result' = Err(PlacementError)
                /\ pc' = "done"
                /\ UNCHANGED <<ret, snippet_nodes, snippet_patterns, registered>>
           ELSE IF branch = "bracketed"
           THEN /\ ret' = "bracketed"
                /\ pc' = "build"
                /\ UNCHANGED <<snippet_nodes, snippet_patterns, registered, result>>
           ELSE IF branch = "underscore"
           THEN /\ result' = Ok(Underscore)
                /\ pc' = "done"
                /\ UNCHANGED <<ret, snippet_nodes, snippet_patterns, registered>>
           ELSE IF branch = "variable"
           THEN /\ \E ok \in BOOLEAN :
                      IF ok
                      THEN /\ registered' = Append(registered,
                                  [name |-> Trim(content), range |-> range])
                           /\ result' = Ok([kind |-> "Variable", name |-> Trim(content)])
                      ELSE /\ result' = Err(BindingError)
                           /\ UNCHANGED registered
                /\ pc' = "done"
                /\ UNCHANGED <<ret, snippet_nodes, snippet_patterns>>
           ELSE \E n \in 0..MaxNodes :
                  \E compiled \in BOOLEAN :
                    LET kinds == [i \in 1..n |-> i]
                    IN
                      /\ snippet_nodes' = [parsed |-> TRUE, kinds |-> kinds]
                      /\ IF n = 0
                         THEN /\ compiled
                              /\ ret' = "fallback"
                              /\ pc' = "build"
                              /\ UNCHANGED <<snippet_patterns, result>>
                         ELSE IF compiled
                         THEN /\ snippet_patterns' = SnippetPatterns(kinds, range, is_rhs)
                              /\ ret' = "codesnippet"
                              /\ pc' = "build"
                              /\ UNCHANGED result
                         ELSE /\ result' = Err(CompileError)
                              /\ pc' = "done"
                              /\ UNCHANGED <<ret, snippet_patterns>>
                      /\ UNCHANGED registered
    /\ UNCHANGED <<node, is_rhs, content, range, source_string, metavariables, iter,
                   parts, last, built>>

ParseSnippetReturn ==
    /\ pc = "return"
    /\ result' = ReturnPattern(ret, built, snippet_patterns, content)
    /\ pc' = "done"
    /\ UNCHANGED <<node, is_rhs, content, range, ret, snippet_nodes, snippet_patterns,
                   source_string, metavariables, iter, parts, last, built, registered>>

(***************************************************************************)
(* Inputs and specifications.                                              *)
(***************************************************************************)
RECURSIVE Flatten(_)
Flatten(ts) == IF ts = <<>> THEN <<>> ELSE Head(ts) \o Flatten(Tail(ts))

\* Snippet texts put together from metavariables, wildcards and filler.
Tokens ==
    {<<DOLLAR, "x">>, <<DOLLAR, LBRACE, "x", RBRACE>>, <<DOLLAR, "_">>,
     <<CARET, "_">>, <<SP>>, <<BT>>, <<BS>>}

TokenTexts == {Flatten(ts) : ts \in UNION {[1..k -> Tokens] : k \in 0..MaxTokens}}

\* Snippet texts over the characters the escape processing reads.
RawChars == {BS, "n", DOLLAR, CARET, BT, DQ}

RawTexts == UNION {[1..k -> RawChars] : k \in 0..MaxRawLen}

Quoted(t) == <<DQ>> \o t \o <<DQ>>

InitOver(texts, languages, snippets) ==
    /\ node \in [start : {0, MaxStart}, language : languages, snippet : snippets]
    /\ is_rhs \in BOOLEAN
    /\ pc = "unwrap"
    /\ content = <<>>
    /\ range = [start |-> 0, end |-> 0]
    /\ ret = "none"
    /\ snippet_nodes = [parsed |-> FALSE, kinds |-> <<>>]
    /\ snippet_patterns = <<>>
    /\ source_string = <<>>
    /\ metavariables = <<>>
    /\ iter = <<>>
    /\ parts = <<>>
    /\ last = 0
    /\ built = None
    /\ registered = <<>>
    /\ result = None

Init ==
    InitOver(TokenTexts, KnownLanguages \cup {<<"z", "z">>},
             {Quoted(t) : t \in TokenTexts}
                 \cup {<<DQ>> \o t : t \in TokenTexts}
                 \cup {t \o <<DQ>> : t \in TokenTexts})

InitRaw ==
    InitOver(RawTexts, {<<"j", "s">>}, {Quoted(t) : t \in RawTexts})

Next ==
    \/ FromNodeWithRhs
    \/ ParseSnippetContent
    \/ DynamicSnippetStart
    \/ DynamicSnippetLoop
    \/ DynamicSnippetFinish
    \/ ParseSnippetReturn

Spec == Init /\ [][Next]_vars

SpecRaw == InitRaw /\ [][Next]_vars

(***************************************************************************)
(* Properties.                                                             *)
(***************************************************************************)
\* parse_snippet_content has been called with (content, range).
Forwarded == pc # "unwrap" /\ Unwrap(node).ok

\* dynamic_snippet_from_source has been called and is past its scan.
Scanned == ret # "none" /\ pc # "build"

\* The occurrences of ms by ascending start offset.
RECURSIVE SortByStart(_)
SortByStart(ms) ==
    IF ms = {} THEN <<>>
    ELSE LET m == CHOOSE x \in ms : \A y \in ms : x.range.start <= y.range.start
         IN  <<m>> \o SortByStart(ms \ {m})

Occurrences == SortByStart({metavariables[k] : k \in 1..Len(metavariables)})

\* The parts of a text split left to right at the occurrences os (ascending),
\* reading on from offset `from`.
RECURSIVE ExpectedParts(_, _, _)
ExpectedParts(text, os, from) ==
    IF os = <<>> THEN <<StringPart(Slice(text, from, Len(text)))>>
    ELSE <<StringPart(Slice(text, from, Head(os).range.start)),
           VariablePart(Head(os).name, Head(os).range)>>
             \o ExpectedParts(text, Tail(os), Head(os).range.end)

\* The parts in order, a variable part replaced by the text its occurrence covers.
RECURSIVE Reconstruct(_, _)
Reconstruct(ps, text) ==
    IF ps = <<>> THEN <<>>
    ELSE (IF Head(ps).kind = "String" THEN Head(ps).text
          ELSE Slice(text, Head(ps).occ.start, Head(ps).occ.end))
             \o Reconstruct(Tail(ps), text)

IsBracketed(m) == m.range.end - m.range.start > Len(m.name)

PlacementEnforcement ==
    (Forwarded /\ pc # "resolve" /\ HasBracketedVars(content) /\ ~is_rhs)
        => (pc = "done" /\ result = Err(PlacementError))

PlacementWitness ==
    /\ Forwarded
    /\ pc = "done"
    /\ ~is_rhs
    /\ HasBracketedVars(content)
    /\ Len(ScanFrom(content, 0)) >= 2
    /\ result = Err(PlacementError)

WildcardInvariance ==
    (Forwarded /\ pc # "resolve" /\ Trim(content) \in {<<DOLLAR, "_">>, <<CARET, "_">>})
        => /\ pc = "done"
           /\ result = Ok(Underscore)
           /\ registered = <<>>

WildcardWitness ==
    /\ Forwarded
    /\ pc = "done"
    /\ ~is_rhs
    /\ Trim(content) = <<CARET, "_">>
    /\ Len(content) >= Len(Trim(content)) + 2
    /\ result = Ok(Underscore)

\* C6: with one or more candidate nodes, all compiled, a failed build of the
\* dynamic snippet still ends in a CodeSnippet: one alternative per candidate
\* node under its kind id, the original text, and no template.
StructuralKept ==
    (/\ Forwarded
     /\ snippet_nodes.kinds # <<>>
     /\ Len(snippet_patterns) = Len(snippet_nodes.kinds)
     /\ built.tag = "Err")
        => /\ pc \in {"return", "done"}
           /\ pc = "done" =>
                /\ result.tag = "Ok"
                /\ result.pattern.kind = "CodeSnippet"
                /\ Len(result.pattern.patterns) = Len(snippet_nodes.kinds)
                /\ \A i \in 1..Len(snippet_nodes.kinds) :
                       result.pattern.patterns[i].kind = snippet_nodes.kinds[i]
                /\ result.pattern.source = content
                /\ result.pattern.dynamic_snippet = None

StructuralKeptWitness ==
    /\ Forwarded
    /\ pc = "done"
    /\ Len(snippet_nodes.kinds) >= 2
    /\ Len(snippet_patterns) = Len(snippet_nodes.kinds)
    /\ built.tag = "Err"
    /\ result.tag = "Ok"
    /\ result.pattern.dynamic_snippet = None

\* C7: the range forwarded to parse_snippet_content covers the dequoted content:
\* from one byte after the opening quote to the closing quote, as long as the
\* content.
ForwardedRangeIsContent ==
    pc = "resolve"
        => /\ range.start = SnippetNodeRange(node).start + 1
           /\ range.end = SnippetNodeRange(node).end - 1
           /\ range.end - range.start = Len(content)

\* The steps a call may still take: one per occurrence left to walk, and one for
\* each stage of the call chain ahead.
Rank ==
    IF pc = "unwrap" THEN Len(node.snippet) + 5
    ELSE IF pc = "resolve" THEN Len(content) + 4
    ELSE IF pc = "build" THEN Len(content) + 3
    ELSE IF pc = "loop" THEN Len(iter) + 2
    ELSE IF pc = "return" THEN 1
    ELSE 0

RegistersTranslatedRange ==
    Scanned
        => \A k \in 1..Len(registered) :
               /\ registered[k].name = Occurrences[k].name
               /\ registered[k].range =
                      [start |-> range.start + Occurrences[k].range.start,
                       end |-> range.start + Occurrences[k].range.end]

\* The six rewrites in the order the specification lists them.
UnescapeSpecOrder(raw) ==
    Replace(Replace(Replace(Replace(Replace(Replace(raw,
        <<BS, "n">>, <<NL>>),
        <<BS, BT>>, <<BT>>),
        <<BS, DOLLAR>>, <<DOLLAR>>),
        <<BS, CARET>>, <<CARET>>),
        <<BS, DQ>>, <<DQ>>),
        <<BS, BS>>, <<BS>>)

\* One left-to-right pass over the escape codes.
RECURSIVE UnescapeSinglePass(_)
UnescapeSinglePass(raw) ==
    IF raw = <<>> THEN <<>>
    ELSE IF Len(raw) >= 2 /\ raw[1] = BS /\ raw[2] \in {"n", BT, DOLLAR, CARET, DQ, BS}
    THEN <<IF raw[2] = "n" THEN NL ELSE raw[2]>> \o UnescapeSinglePass(SubSeq(raw, 3, Len(raw)))
    ELSE <<raw[1]>> \o UnescapeSinglePass(Tail(raw))

\* C10: the text the builder works on is the raw text after the six whole-text
\* rewrites in the listed order.
UnescapeOrder == Scanned => source_string = UnescapeSpecOrder(content)

\* Two backslashes and an n: the rewrites leave a backslash and a newline, where
\* one pass over the escape codes leaves a backslash and an n.
UnescapeOrderWitness ==
    /\ Scanned
    /\ content = <<BS, BS, "n">>
    /\ source_string = <<BS, NL>>
    /\ UnescapeSinglePass(content) = <<BS, "n">>

====
